---- MODULE Spec2Model ----
(***************************************************************************)
(* Pool eligibility filter, yield calculators and ranking pipeline of the  *)
(* Uniswap v3 pool analysis scripts:                                       *)
(*   experiments/analyze_pools_revised.py        (script "revised")        *)
(*   experiments/analyze_pools_with_30d_data.py  (script "with30d")        *)
(*   experiments/fetch_apy_thegraph.py           (historical series)       *)
(*                                                                         *)
(* Python floats are modelled as exact rationals [t |-> "float", n, d] in  *)
(* lowest terms (d > 0), so equal numbers are equal values.  JSON strings  *)
(* are TLA+ strings; a key that is absent from a JSON object is MISSING    *)
(* and a JSON null is NULL.                                                *)
(***************************************************************************)
EXTENDS Integers, Sequences, FiniteSets, TLC

(***************************************************************************)
(* Python values                                                           *)
(***************************************************************************)
None == [t |-> "None"]

Raise(e) == [t |-> "raise", exc |-> e]

IsRaise(v) == v.t = "raise"

MISSING == "<missing>"

NULL == "<null>"

\* Let(v, LAMBDA x : e) is e with x bound to the value of v: a Python
\* assignment x = v followed by e.  v is evaluated once.
Let(v, F(_)) == CHOOSE r \in {F(x) : x \in {v}} : TRUE

Abs(x) == IF x < 0 THEN -x ELSE x

\* Recursion is written with functions: a function is applied to the values
\* of its arguments, so each argument is evaluated once.
GCD[a \in Nat, b \in Nat] == IF b = 0 THEN a ELSE GCD[b, a % b]

\* The float with value n/d (d # 0), in lowest terms with a positive denominator.
Num(n, d) ==
    LET g == GCD[Abs(n), Abs(d)]
        s == IF d < 0 THEN -1 ELSE 1
    IN  [t |-> "float", n |-> (s * n) \div g, d |-> (s * d) \div g]

Floats == [t : {"float"}, n : Int, d : Nat \ {0}]

Zero == [t |-> "float", n |-> 0, d |-> 1]

IsNum(v) == v.t = "float"

\* a * b, cross-reduced before multiplying
Mul[a \in Floats, b \in Floats] ==
    LET g1 == GCD[Abs(a.n), b.d]
        g2 == GCD[Abs(b.n), a.d]
    IN  [t |-> "float", n |-> (a.n \div g1) * (b.n \div g2),
         d |-> (a.d \div g2) * (b.d \div g1)]

\* a / b for b # 0
Div[a \in Floats, b \in Floats] ==
    Mul[a, IF b.n < 0 THEN [t |-> "float", n |-> -b.d, d |-> -b.n]
           ELSE [t |-> "float", n |-> b.d, d |-> b.n]]

Add[a \in Floats, b \in Floats] ==
    LET g == GCD[a.d, b.d]
    IN  Num(a.n * (b.d \div g) + b.n * (a.d \div g), (a.d \div g) * b.d)

Less(a, b) == a.n * b.d < b.n * a.d

Raises == [t : {"raise"}, exc : STRING]

\* a + b where either may be an exception raised on the way: the first one
AddOrRaise[a \in Floats \cup Raises, b \in Floats \cup Raises] ==
    IF IsRaise(a) THEN a ELSE IF IsRaise(b) THEN b ELSE Add[a, b]


(***************************************************************************)
(* Python str methods used by the scripts                                  *)
(***************************************************************************)
Char(s, i) == SubSeq(s, i, i)

LowerChars == "abcdefghijklmnopqrstuvwxyz"

UpperChars == "ABCDEFGHIJKLMNOPQRSTUVWXYZ"

DigitChars == "0123456789"

IsDigit(c) == \E i \in 1..10 : Char(DigitChars, i) = c

DigitVal(c) == (CHOOSE i \in 1..10 : Char(DigitChars, i) = c) - 1

UpperChar(c) ==
    IF \E i \in 1..26 : Char(LowerChars, i) = c
    THEN Char(UpperChars, CHOOSE i \in 1..26 : Char(LowerChars, i) = c)
    ELSE c

\* str.upper()
Upper[s \in STRING] ==
    IF Len(s) = 0 THEN ""
    ELSE UpperChar(Char(s, 1)) \o Upper[SubSeq(s, 2, Len(s))]

\* str.lstrip(), str.rstrip(), str.strip() on blanks
LStrip[s \in STRING] ==
    IF Len(s) > 0 /\ Char(s, 1) = " " THEN LStrip[SubSeq(s, 2, Len(s))] ELSE s

RStrip[s \in STRING] ==
    IF Len(s) > 0 /\ Char(s, Len(s)) = " " THEN RStrip[SubSeq(s, 1, Len(s) - 1)] ELSE s

\* No trimming at all.
NoStrip(s) == s

Strip(s) == RStrip[LStrip[s]]

\* str.split(sep) for a one-character separator: the pieces between the
\* separators, empty pieces included (cur is the piece being read)
SplitFrom[s \in STRING, sep \in STRING, cur \in STRING] ==
    IF Len(s) = 0 THEN <<cur>>
    ELSE IF Char(s, 1) = sep
         THEN <<cur>> \o SplitFrom[SubSeq(s, 2, Len(s)), sep, ""]
         ELSE SplitFrom[SubSeq(s, 2, Len(s)), sep, cur \o Char(s, 1)]

Split(s, sep) == SplitFrom[s, sep, ""]

\* str.split(): the maximal runs of non-blank characters
SplitWs(s) == SelectSeq(Split(s, " "), LAMBDA p : p # "")

\* str.replace(c, '') for a one-character c
Remove[s \in STRING, c \in STRING] ==
    IF Len(s) = 0 THEN ""
    ELSE (IF Char(s, 1) = c THEN "" ELSE Char(s, 1)) \o Remove[SubSeq(s, 2, Len(s)), c]

AllDigits(s) == \A i \in 1..Len(s) : IsDigit(Char(s, i))

DigitsVal[s \in STRING] ==
    IF Len(s) = 0 THEN 0
    ELSE 10 * DigitsVal[SubSeq(s, 1, Len(s) - 1)] + DigitVal(Char(s, Len(s)))

Pow10[k \in Nat] == IF k = 0 THEN 1 ELSE 10 * Pow10[k - 1]

\* float('nan'), float('inf'), float('-inf'): floats outside the rationals.
\* They are results of float() only; the arithmetic above is on Floats.
NaN == [t |-> "float", n |-> 0, d |-> 0]

Infinity(negative) == [t |-> "float", n |-> IF negative THEN -1 ELSE 1, d |-> 0]

IsFinite(v) == v.t = "float" /\ v.d # 0

\* float(x) for the texts the model feeds it: a decimal literal
\* [sign] digits [. digits] with at least one digit, surrounding blanks
\* ignored, is its value; nan, inf and infinity in any letter case, with an
\* optional sign, are NaN and the infinities; null is a TypeError; any other
\* text without the letter e or an underscore is a ValueError.
UnsignedFloat[s \in STRING] ==
    LET parts == Split(s, ".")
    IN  IF Len(parts) = 1 /\ Len(s) > 0 /\ AllDigits(s)
        THEN Num(DigitsVal[s], 1)
        ELSE IF /\ Len(parts) = 2
                /\ Len(parts[1]) + Len(parts[2]) > 0
                /\ AllDigits(parts[1])
                /\ AllDigits(parts[2])
             THEN Num(DigitsVal[parts[1] \o parts[2]], Pow10[Len(parts[2])])
             ELSE Raise("ValueError")

PyFloat[x \in STRING] ==
    IF x = NULL THEN Raise("TypeError")
    ELSE LET s == Strip(x)
             signed == Len(s) > 0 /\ Char(s, 1) \in {"-", "+"}
             body == IF signed THEN SubSeq(s, 2, Len(s)) ELSE s
             u == UnsignedFloat[body]
         IN  IF Upper[body] = "NAN" THEN NaN
             ELSE IF Upper[body] \in {"INF", "INFINITY"}
                  THEN Infinity(signed /\ Char(s, 1) = "-")
             ELSE IF IsNum(u) /\ signed /\ Char(s, 1) = "-"
                  THEN [t |-> "float", n |-> -u.n, d |-> u.d]
                  ELSE u

\* The numeric texts of the model's inputs with their float() values, computed
\* once; float(x) looks x up here and computes PyFloat(x) for any other text.
NumberTexts ==
    {"0", "0.0", "-500000", "3000", "1000", "2500", "5000", "50000", "100000",
     "-100000", "99999.99", "200000", "500000", "500000.0", "1000000", "1500000",
     "2000000", "3000000", "n/a", NULL}

FloatCache == [x \in NumberTexts |-> PyFloat[x]]

float(x) == IF x \in NumberTexts THEN FloatCache[x] ELSE PyFloat[x]

\* int(x) for a string of decimal digits with an optional sign
int[x \in STRING] ==
    IF x = NULL THEN Raise("TypeError")
    ELSE LET s == Strip(x)
             signed == Len(s) > 0 /\ Char(s, 1) \in {"-", "+"}
             body == IF signed THEN SubSeq(s, 2, Len(s)) ELSE s
         IN  IF Len(body) > 0 /\ AllDigits(body)
             THEN [t |-> "int",
                   v |-> IF signed /\ Char(s, 1) = "-" THEN -DigitsVal[body]
                         ELSE DigitsVal[body]]
             ELSE Raise("ValueError")

\* d[key] on a JSON object: KeyError when the key is absent
Get(d, key) == IF d[key] = MISSING THEN Raise("KeyError") ELSE [t |-> "json", v |-> d[key]]

(***************************************************************************)
(* Token allowlist                                                         *)
(***************************************************************************)
STABLECOINS ==
    {"USDT", "USDC", "DAI", "BUSD", "FRAX", "USDD", "TUSD", "USDP",
     "USDE", "USDS", "PYUSD", "RLUSD", "USDG", "USYC", "USDF",
     "BSC-USD", "SUSDS", "SUSDE", "BFUSD", "USD1", "USDT0",
     "SYRUPUSDC", "GUSD", "LUSD", "SUSD", "FDUSD", "CUSD"}

MAJOR_COINS ==
    {"BTC", "WBTC", "CBBTC", "FBTC", "TBTC", "HBTC", "RENBTC",
     "ETH", "WETH", "STETH", "WSTETH", "RETH", "CBETH", "WBETH",
     "WEETH", "BETH", "SFRXETH", "FRXETH", "EETH", "RSETH"}

\* The snapshot file experiments/top_100_coins_symbols.json: absent, or a JSON
\* array of symbols.
SnapshotFiles == {[t |-> "absent"], [t |-> "array", v |-> <<"xaut", "UNI">>]}

\* A loader that falls back to a built-in list when the file is absent.
LoadWithFallback(file) ==
    IF file.t = "absent" THEN {"UNI"}
    ELSE {Upper[file.v[i]] : i \in 1..Len(file.v)}

load_top_100_symbols(file) ==
    IF file.t = "absent" THEN {}
    ELSE {Upper[file.v[i]] : i \in 1..Len(file.v)}

VARIABLES
    script,                \* "revised" or "with30d": which script runs
    TOP_100_SYMBOLS,       \* module-level set, loaded once
    pc,                    \* position of the run
    page,                  \* loop variable of the page loop
    data,                  \* records of the current page not yet examined
    all_pools,             \* list built by the pipeline
    pools_checked,
    pools_passed_filter,
    pools_with_30d_data,
    pools_sorted,          \* __main__: sorted(pools, ...)
    top_n,                 \* __main__: top_10 / top_20
    arrived,               \* history: the records examined so far, in order
    events,                \* history: page fetches, historical fetches, sleeps
    calc                   \* arguments and results of the calculator runs

vars == <<script, TOP_100_SYMBOLS, pc, page, data, all_pools, pools_checked,
          pools_passed_filter, pools_with_30d_data, pools_sorted, top_n,
          arrived, events, calc>>

is_allowed_token(symbol) ==
    Let(Upper[symbol], LAMBDA sym :
        sym \in STABLECOINS \/ sym \in MAJOR_COINS \/ sym \in TOP_100_SYMBOLS)

(***************************************************************************)
(* Pool name parser and eligibility filter                                 *)
(***************************************************************************)
Str(s) == [t |-> "str", v |-> s]

\* Returns [token1, token2, fee_tier]; raises AttributeError on a non-string.
ParsePoolName[pool_name \in STRING] ==
    IF pool_name = NULL THEN Raise("AttributeError")
    ELSE
    LET parts == Split(pool_name, "/")
        unparseable == [t |-> "tuple", token1 |-> None, token2 |-> None, fee_tier |-> None]
    IN  IF Len(parts) < 2 THEN unparseable
        ELSE
        LET token1 == Upper[Strip(parts[1])]
            token2_and_fee == SplitWs(Strip(parts[2]))
        IN  IF Len(token2_and_fee) < 2 THEN unparseable
            ELSE
            LET token2 == Upper[token2_and_fee[1]]
                fee_str == Remove[token2_and_fee[2], "%"]
                parsed == float(fee_str)
                fee_tier == IF IsRaise(parsed) THEN None ELSE parsed
            IN  [t |-> "tuple", token1 |-> Str(token1), token2 |-> Str(token2),
                 fee_tier |-> fee_tier]

\* c in s, for a one-character c
Contains(s, c) == \E i \in 1..Len(s) : Char(s, i) = c

\* A parser that keeps token A when the right segment has fewer than two
\* tokens: a partial result.
ParsePartial(pool_name) ==
    Let(ParsePoolName[pool_name], LAMBDA p :
        IF IsRaise(p) \/ p.token1 # None \/ ~Contains(pool_name, "/") THEN p
        ELSE [p EXCEPT !.token1 = Str(Upper[Strip(Split(pool_name, "/")[1])])])

\* The pool names of the model's inputs with their parse, computed once;
\* parse_pool_name looks the name up here and parses any other name.
PoolNames ==
    {"WETH / USDC 0.05%", "dai / usdc 0.05%", "WBTC / WETH 0.3%", "XAUt / WETH 0.3%",
     "XAUt / WETH", "WETH / USDT fee", "WETH / USDT 1%", NULL}

ParseCache == [n \in PoolNames |-> ParsePoolName[n]]

parse_pool_name(pool_name) ==
    IF pool_name \in PoolNames THEN ParseCache[pool_name] ELSE ParsePoolName[pool_name]

\* Python truth value of a token: None and '' are false
Truthy(tok) == tok.t = "str" /\ tok.v # ""

\* An eligibility test satisfied by one allowed leg.
EitherLegAllowed(pool_name) ==
    Let(ParsePoolName[pool_name], LAMBDA p :
        IF IsRaise(p) THEN p
        ELSE IF ~Truthy(p.token1) \/ ~Truthy(p.token2) THEN [t |-> "bool", v |-> FALSE]
        ELSE [t |-> "bool",
              v |-> is_allowed_token(p.token1.v) \/ is_allowed_token(p.token2.v)])

\* Returns a BOOLEAN, or raises what parse_pool_name raises.
is_allowed_pool(pool_name) ==
    Let(parse_pool_name(pool_name), LAMBDA p :
        IF IsRaise(p) THEN p
        ELSE IF ~Truthy(p.token1) \/ ~Truthy(p.token2) THEN [t |-> "bool", v |-> FALSE]
        ELSE [t |-> "bool",
              v |-> is_allowed_token(p.token1.v) /\ is_allowed_token(p.token2.v)])

(***************************************************************************)
(* Yield calculators                                                       *)
(***************************************************************************)
\* First exception raised by evaluating the values vs in order, or None.
FirstRaise(vs) ==
    Let(vs, LAMBDA v :
        IF \E i \in DOMAIN v : IsRaise(v[i])
        THEN v[CHOOSE i \in DOMAIN v : IsRaise(v[i]) /\ \A j \in 1..(i - 1) : ~IsRaise(v[j])]
        ELSE None)

\* float(pool['attributes'][...]) : KeyError, TypeError, ValueError or a float
FloatField(pool, key) ==
    IF pool[key] = MISSING THEN Raise("KeyError") ELSE float(pool[key])

IntField(pool, key) ==
    IF pool[key] = MISSING THEN Raise("KeyError") ELSE int[pool[key]]

\* fees / tvl * annualize * 100 with fees = volume * (fee_tier / 100)
Hundred == [t |-> "float", n |-> 100, d |-> 1]

\* Variants of the formula: a 360-day year, and a constant added to the yield.
ApyFormula360(volume, tvl, fee_tier, annualize) ==
    Mul[Mul[Div[Mul[volume, Div[fee_tier, Hundred]], tvl],
            Mul[annualize, [t |-> "float", n |-> 72, d |-> 73]]], Hundred]

ApyFormulaAffine(volume, tvl, fee_tier, annualize) ==
    Add[Mul[Mul[Div[Mul[volume, Div[fee_tier, Hundred]], tvl], annualize], Hundred],
        [t |-> "float", n |-> 1, d |-> 1]]

ApyFormula(volume, tvl, fee_tier, annualize) ==
    Mul[Mul[Div[Mul[volume, Div[fee_tier, Hundred]], tvl], annualize], Hundred]

\* A 24h calculator that assumes a 0.3% fee when the fee tier is absent, as
\* experiments/analyze_pools.py does.
Apy24hDefaultFee(pool, fee_tier) ==
    Let(FloatField(pool, "volume_usd_h24"), LAMBDA volume_24h :
    Let(FloatField(pool, "reserve_in_usd"), LAMBDA reserve_usd :
        IF IsRaise(volume_24h) \/ IsRaise(reserve_usd) THEN Zero
        ELSE IF reserve_usd = Zero THEN Zero
        ELSE ApyFormula(volume_24h, reserve_usd,
                        IF fee_tier = None THEN [t |-> "float", n |-> 3, d |-> 10]
                        ELSE fee_tier,
                        Num(365, 1))))

calculate_apy_24h(pool, fee_tier) ==
    Let(FloatField(pool, "volume_usd_h24"), LAMBDA volume_24h :
    Let(FloatField(pool, "reserve_in_usd"), LAMBDA reserve_usd :
        IF IsRaise(volume_24h) \/ IsRaise(reserve_usd) THEN Zero
        ELSE IF reserve_usd = Zero \/ fee_tier = None THEN Zero
        ELSE ApyFormula(volume_24h, reserve_usd, fee_tier, Num(365, 1))))

\* A 30d calculator of the revised script that takes the daily volume for
\* the volume of 30 days.
Apy30dOverThirtyDays(pool, fee_tier) ==
    Let(FloatField(pool, "volume_usd_h24"), LAMBDA volume_24h :
    Let(FloatField(pool, "reserve_in_usd"), LAMBDA reserve_usd :
        IF IsRaise(volume_24h) \/ IsRaise(reserve_usd) THEN Zero
        ELSE IF reserve_usd = Zero \/ fee_tier = None THEN Zero
        ELSE ApyFormula(volume_24h, reserve_usd, fee_tier, Num(365, 30))))

\* analyze_pools_revised.py: the 24h volume as a proxy
calculate_apy_30d_revised(pool, fee_tier) ==
    Let(FloatField(pool, "volume_usd_h24"), LAMBDA volume_24h :
    Let(FloatField(pool, "reserve_in_usd"), LAMBDA reserve_usd :
        IF IsRaise(volume_24h) \/ IsRaise(reserve_usd) THEN Zero
        ELSE IF reserve_usd = Zero \/ fee_tier = None THEN Zero
        ELSE ApyFormula(volume_24h, reserve_usd, fee_tier, Num(365, 1))))

\* analyze_pools_with_30d_data.py: arithmetic on None raises TypeError, caught
calculate_apy_30d(volume_30d, avg_tvl_30d, fee_tier) ==
    IF avg_tvl_30d = Zero \/ fee_tier = None \/ volume_30d = None THEN Zero
    ELSE IF avg_tvl_30d = None THEN Zero
    ELSE ApyFormula(volume_30d, avg_tvl_30d, fee_tier, Num(365, 30))

(***************************************************************************)
(* Historical day data (The Graph)                                         *)
(***************************************************************************)
\* sum(float(day[key]) for day in days): the first exception, or the sum
SumField(days, key) ==
    LET sum[k \in 0..Len(days)] ==
            IF k = 0 THEN Zero ELSE AddOrRaise[sum[k - 1], FloatField(days[k], key)]
    IN  sum[Len(days)]

NoHistory == [volume |-> None, avg_tvl |-> None, fees |-> None]

\* Returns (total_volume, avg_tvl, total_fees), or three None.  resp is the
\* outcome of the POST: "error" (request failed, non-2xx status), "nodata"
\* (a body without data.poolDayDatas) or "ok" with the day records.
fetch_30d_volume_from_thegraph(resp) ==
    IF resp.t # "ok" THEN NoHistory
    ELSE
    Let(resp.poolDayDatas, LAMBDA pool_day_data :
        IF pool_day_data = <<>> THEN NoHistory
        ELSE
        Let(SumField(pool_day_data, "volumeUSD"), LAMBDA total_volume :
        Let(SumField(pool_day_data, "feesUSD"), LAMBDA total_fees :
        Let(SumField(pool_day_data, "tvlUSD"), LAMBDA tvl_sum :
            IF IsRaise(total_volume) \/ IsRaise(total_fees) \/ IsRaise(tvl_sum)
            THEN NoHistory
            ELSE [volume |-> total_volume,
                  avg_tvl |-> Div[tvl_sum, Num(Len(pool_day_data), 1)],
                  fees |-> total_fees]))))

\* [float(day['tvlUSD']) for day in days if float(day['tvlUSD']) > 0]
PositiveTvl(day) ==
    Let(FloatField(day, "tvlUSD"), LAMBDA v : IsNum(v) /\ Less(Zero, v))

\* sum(values) / len(values) if values else 0, for a sum that may be an exception
MeanOrZero(sum, count) ==
    IF IsRaise(sum) \/ count = 0 THEN Zero ELSE Div[sum, Num(count, 1)]

\* fetch_apy_thegraph.py: the metrics of one pool, or the exception raised
calculate_apy_from_thegraph_data(pool_data) ==
    IF pool_data = None \/ pool_data.poolDayData = <<>>
    THEN [t |-> "dict", apy_30d |-> Zero, total_fees_usd |-> Zero, avg_tvl_usd |-> Zero,
          total_volume_usd |-> Zero, days_count |-> 0,
          error |-> "No pool day data available"]
    ELSE
    Let(pool_data.poolDayData, LAMBDA pool_day_data :
    Let(SumField(pool_day_data, "feesUSD"), LAMBDA total_fees :
    Let(SumField(pool_day_data, "volumeUSD"), LAMBDA total_volume :
    Let(SumField(pool_day_data, "tvlUSD"), LAMBDA tvl_all :
    Let(SelectSeq(pool_day_data, PositiveTvl), LAMBDA tvl_values :
    Let(MeanOrZero(SumField(tvl_values, "tvlUSD"), Len(tvl_values)), LAMBDA avg_tvl :
    Let(Len(pool_day_data), LAMBDA days_count :
        IF FirstRaise(<<total_fees, total_volume, tvl_all>>) # None
        THEN FirstRaise(<<total_fees, total_volume, tvl_all>>)
        ELSE [t |-> "dict",
              apy_30d |-> IF Less(Zero, avg_tvl) /\ days_count > 0
                          THEN Mul[Mul[Div[total_fees, avg_tvl], Num(365, days_count)],
                                   Hundred]
                          ELSE Zero,
              total_fees_usd |-> total_fees,
              avg_tvl_usd |-> avg_tvl,
              total_volume_usd |-> total_volume,
              days_count |-> days_count,
              daily_avg_volume_usd |-> Div[total_volume, Num(days_count, 1)]])))))))

(***************************************************************************)
(* Ranking pipeline: analyze_pools / analyze_pools_with_30d_data           *)
(***************************************************************************)
MIN_TVL == 100000

TOP_N_REVISED == 10

TOP_N_WITH30D == 20

\* num_pages, target_pools: parameters of the pipeline
NumPages == 2

TargetPools == 2

\* the most records the pages of one run hold together
MaxRecords == 3

Scripts == {"revised", "with30d"}

Pool(name, reserve, volume, created) ==
    [name |-> name, address |-> "0xabc", reserve_in_usd |-> reserve,
     volume_usd_h24 |-> volume, buys |-> "3", sells |-> "4",
     pool_created_at |-> created]

\* The records a page of the pool listing may hold.
Records ==
    { Pool("WETH / USDC 0.05%", "500000", "1000000", "2021-05-05T00:00:00Z"),
      Pool("dai / usdc 0.05%", "500000.0", "1000000", "2021-05-06T00:00:00Z"),
      Pool("WBTC / WETH 0.3%", "100000", "100000", "2021-05-07T00:00:00Z"),
      Pool("WBTC / WETH 0.3%", "99999.99", "100000", "2021-05-07T00:00:00Z"),
      Pool("XAUt / WETH 0.3%", "200000", "100000", "2022-01-01T00:00:00Z"),
      Pool("XAUt / WETH", "200000", "100000", "2022-01-01T00:00:00Z"),
      Pool("WETH / USDT fee", "200000", "100000", "2022-01-01T00:00:00Z"),
      Pool("WETH / USDT 1%", "n/a", "100000", "2022-01-01T00:00:00Z"),
      Pool("WETH / USDT 1%", "200000", MISSING, "2022-01-01T00:00:00Z"),
      Pool("WETH / USDT 1%", "200000", "100000", MISSING),
      Pool("WETH / USDT 1%", "200000", "-100000", "2022-01-01T00:00:00Z"),
      Pool(MISSING, "200000", "100000", "2022-01-01T00:00:00Z"),
      Pool(NULL, "200000", "100000", "2022-01-01T00:00:00Z") }

Day(volume, tvl, fees) == [volumeUSD |-> volume, tvlUSD |-> tvl, feesUSD |-> fees]

\* The outcomes of the historical day-data request of one pool.
HistoryResponses ==
    { [t |-> "error"],
      [t |-> "ok", poolDayDatas |-> <<>>],
      [t |-> "ok", poolDayDatas |-> << Day("1000000", "500000", "3000"),
                                        Day("3000000", "1500000", "1000") >>] }

SeqsUpTo(S, k) == UNION {[1..n -> S] : n \in 0..k}

Ev(e, n) == [e |-> e, page |-> n]

\* The body of the record loop for one record, up to where it leaves the
\* try block.  hist is the answer to the historical request, used by the
\* with30d script when the record gets that far.  The result tells
\*   how     "keyerror"  no name: skipped before it is counted
\*           "crash"     an exception the except clause does not catch
\*           "filtered"  not allowed / fee tier absent / reserve below MIN_TVL
\*           "error"     KeyError, ValueError or TypeError: skipped
\*           "kept"      appended to all_pools
\*   checked, passed, got30d   increments of the three counters
\*   fetched  whether the historical request was issued
\*   info     the entry appended when how = "kept"
Outcome(how, checked, passed, got30d, fetched, info) ==
    [how |-> how, checked |-> checked, passed |-> passed, got30d |-> got30d,
     fetched |-> fetched, info |-> info]

Skip(how, checked, passed) == Outcome(how, checked, passed, 0, FALSE, None)

\* lines 187-211 of analyze_pools_revised.py, for a record that passed the filters
KeepRevised(pool, pool_name, fee_tier, reserve_usd) ==
    Let(FloatField(pool, "volume_usd_h24"), LAMBDA volume_24h :
    Let(IntField(pool, "buys"), LAMBDA buys :
    Let(IntField(pool, "sells"), LAMBDA sells :
    Let(Get(pool, "address"), LAMBDA address :
    Let(Get(pool, "pool_created_at"), LAMBDA created :
    Let(calculate_apy_24h(pool, fee_tier), LAMBDA apy_24h :
    Let(calculate_apy_30d_revised(pool, fee_tier), LAMBDA apy_30d :
        IF FirstRaise(<<volume_24h, buys, sells, address, created>>) # None
        THEN Skip("error", 1, 1)
        ELSE Outcome("kept", 1, 1, 0, FALSE,
                     [name |-> pool_name,
                      address |-> address.v,
                      reserve_usd |-> reserve_usd,
                      volume_24h |-> volume_24h,
                      txns_24h |-> buys.v + sells.v,
                      fee_tier |-> fee_tier,
                      apy_24h |-> apy_24h,
                      apy_30d |-> apy_30d,
                      apy_combined |-> Add[Mul[apy_24h, Num(3, 10)],
                                           Mul[apy_30d, Num(7, 10)]],
                      pool_created_at |-> created.v]))))))))

\* A 30-day entry whose yield is 0 when no historical data came back.
Keep30dZeroWithoutData(pool, pool_name, fee_tier, reserve_usd, pool_address, volume_24h, txns_24h, hist) ==
    Let(calculate_apy_24h(pool, fee_tier), LAMBDA apy_24h :
    Let(fetch_30d_volume_from_thegraph(hist), LAMBDA h :
    Let(h.volume # None /\ h.avg_tvl # None, LAMBDA real :
    Let(Get(pool, "pool_created_at"), LAMBDA created :
        IF IsRaise(created)
        THEN Outcome("error", 1, 1, IF real THEN 1 ELSE 0, TRUE, None)
        ELSE Outcome("kept", 1, 1, IF real THEN 1 ELSE 0, TRUE,
                     [name |-> pool_name,
                      address |-> pool_address,
                      reserve_usd |-> reserve_usd,
                      volume_24h |-> volume_24h,
                      volume_30d |-> IF real THEN h.volume
                                     ELSE Mul[volume_24h, Num(30, 1)],
                      avg_tvl_30d |-> IF real THEN h.avg_tvl ELSE reserve_usd,
                      txns_24h |-> txns_24h,
                      fee_tier |-> fee_tier,
                      apy_24h |-> apy_24h,
                      apy_30d |-> IF real
                                  THEN calculate_apy_30d(h.volume, h.avg_tvl, fee_tier)
                                  ELSE Zero,
                      has_real_30d_data |-> real,
                      pool_created_at |-> created.v])))))

\* lines 242-273 of analyze_pools_with_30d_data.py: the historical request and
\* the entry
Keep30d(pool, pool_name, fee_tier, reserve_usd, pool_address, volume_24h, txns_24h, hist) ==
    Let(calculate_apy_24h(pool, fee_tier), LAMBDA apy_24h :
    Let(fetch_30d_volume_from_thegraph(hist), LAMBDA h :
    Let(h.volume # None /\ h.avg_tvl # None, LAMBDA real :
    Let(Get(pool, "pool_created_at"), LAMBDA created :
        IF IsRaise(created)
        THEN Outcome("error", 1, 1, IF real THEN 1 ELSE 0, TRUE, None)
        ELSE Outcome("kept", 1, 1, IF real THEN 1 ELSE 0, TRUE,
                     [name |-> pool_name,
                      address |-> pool_address,
                      reserve_usd |-> reserve_usd,
                      volume_24h |-> volume_24h,
                      volume_30d |-> IF real THEN h.volume
                                     ELSE Mul[volume_24h, Num(30, 1)],
                      avg_tvl_30d |-> IF real THEN h.avg_tvl ELSE reserve_usd,
                      txns_24h |-> txns_24h,
                      fee_tier |-> fee_tier,
                      apy_24h |-> apy_24h,
                      apy_30d |-> IF real
                                  THEN calculate_apy_30d(h.volume, h.avg_tvl, fee_tier)
                                  ELSE apy_24h,
                      has_real_30d_data |-> real,
                      pool_created_at |-> created.v])))))

\* lines 234-244 of analyze_pools_with_30d_data.py; pool_address.lower() at
\* line 123 raises AttributeError, which the record loop does not catch, on
\* an address that is not a string
KeepWith30d(pool, pool_name, fee_tier, reserve_usd, hist) ==
    Let(Get(pool, "address"), LAMBDA pool_address :
    Let(FloatField(pool, "volume_usd_h24"), LAMBDA volume_24h :
    Let(IntField(pool, "buys"), LAMBDA buys :
    Let(IntField(pool, "sells"), LAMBDA sells :
        IF FirstRaise(<<pool_address, volume_24h, buys, sells>>) # None
        THEN Skip("error", 1, 1)
        ELSE IF pool_address.v = NULL THEN Skip("crash", 1, 1)
        ELSE Keep30d(pool, pool_name, fee_tier, reserve_usd, pool_address.v,
                     volume_24h, buys.v + sells.v, hist)))))

\* A threshold that also rejects a reserve of exactly MIN_TVL.
BelowOrAtMinimum(reserve_usd) == ~Less(Num(MIN_TVL, 1), reserve_usd)

\* reserve_usd < 100000
BelowMinimum(reserve_usd) == Less(reserve_usd, Num(MIN_TVL, 1))

\* The filters, the same lines in both scripts: the name, the allowlist, the
\* fee tier and the minimum reserve.  Keep(pool_name, fee_tier, reserve_usd)
\* is the rest of the try block.
Examine(pool, Keep(_, _, _)) ==
    IF pool.name = MISSING THEN Skip("keyerror", 0, 0)
    ELSE
    Let(is_allowed_pool(pool.name), LAMBDA allowed :
        IF IsRaise(allowed) THEN Skip("crash", 1, 0)
        ELSE IF ~allowed.v THEN Skip("filtered", 1, 0)
        ELSE
        Let(parse_pool_name(pool.name).fee_tier, LAMBDA fee_tier :
            IF fee_tier = None THEN Skip("filtered", 1, 1)
            ELSE
            Let(FloatField(pool, "reserve_in_usd"), LAMBDA reserve_usd :
                IF IsRaise(reserve_usd) THEN Skip("error", 1, 1)
                ELSE IF BelowMinimum(reserve_usd) THEN Skip("filtered", 1, 1)
                ELSE Keep(pool.name, fee_tier, reserve_usd))))

ExamineRevised(pool) ==
    Examine(pool, LAMBDA pool_name, fee_tier, reserve_usd :
                      KeepRevised(pool, pool_name, fee_tier, reserve_usd))

ExamineWith30d(pool, hist) ==
    Examine(pool, LAMBDA pool_name, fee_tier, reserve_usd :
                      KeepWith30d(pool, pool_name, fee_tier, reserve_usd, hist))

\* the record loop body of the script that runs
ExamineRecord(pool, hist) ==
    IF script = "revised" THEN ExamineRevised(pool) ELSE ExamineWith30d(pool, hist)

\* An insertion that places e before the entries with an equal key: a
\* descending sort that is not stable.
InsertBeforeEqual(sorted, e, key) ==
    Let(Cardinality({i \in 1..Len(sorted) : Less(e[key], sorted[i][key])}), LAMBDA p :
        SubSeq(sorted, 1, p) \o <<e>> \o SubSeq(sorted, p + 1, Len(sorted)))

\* sorted(pools, key=lambda x: x[key], reverse=True): stable, descending.
\* e is placed after the entries of the descending list whose key is not
\* less than its own.
InsertDesc(sorted, e, key) ==
    Let(Cardinality({i \in 1..Len(sorted) : ~Less(sorted[i][key], e[key])}), LAMBDA p :
        SubSeq(sorted, 1, p) \o <<e>> \o SubSeq(sorted, p + 1, Len(sorted)))

SortedDesc(pools, key) ==
    LET srt[k \in 0..Len(pools)] ==
            IF k = 0 THEN <<>>
            ELSE Let(srt[k - 1], LAMBDA before : InsertDesc(before, pools[k], key))
    IN  srt[Len(pools)]

\* No truncation.
TakeAll(pools, n) == pools

\* pools[:n]
Take(pools, n) == SubSeq(pools, 1, IF Len(pools) < n THEN Len(pools) ELSE n)

RankingKey == IF script = "revised" THEN "apy_combined" ELSE "apy_30d"

TopN == IF script = "revised" THEN TOP_N_REVISED ELSE TOP_N_WITH30D

NoCalc == [op |-> "none"]

Init ==
    /\ script \in Scripts
    /\ TOP_100_SYMBOLS \in {load_top_100_symbols(f) : f \in SnapshotFiles}
    /\ pc = "fetch"
    /\ page = 1
    /\ data = <<>>
    /\ all_pools = <<>>
    /\ pools_checked = 0
    /\ pools_passed_filter = 0
    /\ pools_with_30d_data = 0
    /\ pools_sorted = <<>>
    /\ top_n = <<>>
    /\ arrived = <<>>
    /\ events = <<>>
    /\ calc = NoCalc

\* A page loop that requests a failed page again instead of leaving.
FetchPageRetry ==
    /\ pc = "fetch"
    /\ events' = Append(events, Ev("fetch_page", page))
    /\ \/ /\ pc' = "fetch"
          /\ data' = <<>>
       \/ \E recs \in SeqsUpTo(Records, MaxRecords - Len(arrived)) :
             /\ data' = recs
             /\ pc' = IF recs = <<>> THEN "page_end" ELSE "records"
    /\ UNCHANGED <<script, TOP_100_SYMBOLS, page, all_pools, pools_checked,
                   pools_passed_filter, pools_with_30d_data, pools_sorted, top_n,
                   arrived, calc>>

\* data = fetch_pools_page(page); if not data or 'data' not in data: break
FetchPage ==
    /\ pc = "fetch"
    /\ events' = Append(events, Ev("fetch_page", page))
    /\ \/ /\ pc' = "main"
          /\ data' = <<>>
       \/ \E recs \in SeqsUpTo(Records, MaxRecords - Len(arrived)) :
             /\ data' = recs
             /\ pc' = IF recs = <<>> THEN "page_end" ELSE "records"
    /\ UNCHANGED <<script, TOP_100_SYMBOLS, page, all_pools, pools_checked,
                   pools_passed_filter, pools_with_30d_data, pools_sorted, top_n,
                   arrived, calc>>

\* one iteration of: for pool in data['data']
ProcessRecord ==
    /\ pc = "records"
    /\ \E hist \in HistoryResponses : \E r \in {ExamineRecord(Head(data), hist)} :
          LET with30d == pools_with_30d_data + r.got30d
              stop == script = "with30d" /\ r.how = "kept" /\ with30d >= TargetPools
          IN  /\ arrived' = Append(arrived, Head(data))
              /\ data' = Tail(data)
              /\ pools_checked' = pools_checked + r.checked
              /\ pools_passed_filter' = pools_passed_filter + r.passed
              /\ pools_with_30d_data' = with30d
              /\ all_pools' = IF r.how = "kept" THEN Append(all_pools, r.info)
                              ELSE all_pools
              /\ events' = events
                     \o (IF r.fetched THEN <<Ev("fetch_30d", page)>> ELSE <<>>)
                     \o (IF script = "with30d" /\ r.how = "kept" /\ ~stop
                         THEN <<Ev("sleep_record", page)>> ELSE <<>>)
              /\ pc' = IF r.how = "crash" THEN "crashed"
                       ELSE IF stop \/ Tail(data) = <<>> THEN "page_end"
                       ELSE "records"
    /\ UNCHANGED <<script, TOP_100_SYMBOLS, page, pools_sorted, top_n, calc>>

\* A page loop that sleeps only after a page that left something in the
\* result list.
EndPageSleepWhenKept ==
    /\ pc = "page_end"
    /\ IF script = "with30d" /\ pools_with_30d_data >= TargetPools
       THEN /\ pc' = "main"
            /\ UNCHANGED <<page, events>>
       ELSE /\ events' = IF all_pools = <<>> THEN events
                         ELSE Append(events, Ev("sleep_page", page))
            /\ IF page = NumPages
               THEN pc' = "main" /\ page' = page
               ELSE pc' = "fetch" /\ page' = page + 1
    /\ UNCHANGED <<script, TOP_100_SYMBOLS, data, all_pools, pools_checked,
                   pools_passed_filter, pools_with_30d_data, pools_sorted, top_n,
                   arrived, calc>>

\* after the record loop: the early stop of with30d, the sleep, the next page
EndPage ==
    /\ pc = "page_end"
    /\ IF script = "with30d" /\ pools_with_30d_data >= TargetPools
       THEN /\ pc' = "main"
            /\ UNCHANGED <<page, events>>
       ELSE /\ events' = Append(events, Ev("sleep_page", page))
            /\ IF page = NumPages
               THEN pc' = "main" /\ page' = page
               ELSE pc' = "fetch" /\ page' = page + 1
    /\ UNCHANGED <<script, TOP_100_SYMBOLS, data, all_pools, pools_checked,
                   pools_passed_filter, pools_with_30d_data, pools_sorted, top_n,
                   arrived, calc>>

\* __main__ after the pipeline returned: exit(1) on an empty list, else sort
\* and keep the first TopN
Main ==
    /\ pc = "main"
    /\ IF all_pools = <<>>
       THEN /\ pc' = "exit1"
            /\ UNCHANGED <<pools_sorted, top_n>>
       ELSE /\ pools_sorted' = SortedDesc(all_pools, RankingKey)
            /\ top_n' = Take(pools_sorted', TopN)
            /\ pc' = "done"
    /\ UNCHANGED <<script, TOP_100_SYMBOLS, page, data, all_pools, pools_checked,
                   pools_passed_filter, pools_with_30d_data, arrived, events, calc>>

Next == FetchPage \/ ProcessRecord \/ EndPage \/ Main

Spec == Init /\ [][Next]_vars

\* The scripts are sequential programs whose calls return (every request has
\* a timeout, every sleep is finite): a step that can be taken is taken.
SpecFair == Init /\ [][Next]_vars /\ WF_vars(Next)

(***************************************************************************)
(* Ranking of a given result list: __main__ from a list the pipeline       *)
(* returned, long enough for the truncation to cut                         *)
(***************************************************************************)
\* lengths of the runs of one repeated entry before and after the varied part
MaxPad == 10

\* length of the varied part of the list
MaxMixed == 2

\* Records that pass every filter, with the answer to their historical request:
\* two with equal yield, one higher, one negative
RankInputs ==
    { <<Pool("WETH / USDC 0.05%", "500000", "1000000", "2021-05-05T00:00:00Z"),
        [t |-> "error"]>>,
      <<Pool("dai / usdc 0.05%", "500000.0", "1000000", "2021-05-06T00:00:00Z"),
        [t |-> "error"]>>,
      <<Pool("WBTC / WETH 0.3%", "100000", "100000", "2021-05-07T00:00:00Z"),
        [t |-> "ok", poolDayDatas |-> << Day("1000000", "500000", "3000"),
                                          Day("3000000", "1500000", "1000") >>]>>,
      <<Pool("WETH / USDT 1%", "200000", "-100000", "2022-01-01T00:00:00Z"),
        [t |-> "error"]>> }

\* the entries the pipeline appends for them
RankEntries == {ExamineRecord(i[1], i[2]).info : i \in RankInputs}

PadEntry ==
    ExamineRecord(Pool("WETH / USDC 0.05%", "500000", "1000000", "2021-05-05T00:00:00Z"),
                  [t |-> "error"]).info

Pad(k) == [i \in 1..k |-> PadEntry]

InitRank ==
    /\ script \in Scripts
    /\ TOP_100_SYMBOLS = load_top_100_symbols([t |-> "absent"])
    /\ pc = "main"
    /\ page = NumPages
    /\ data = <<>>
    /\ \E before \in 0..MaxPad, after \in 0..MaxPad :
       \E mixed \in SeqsUpTo(RankEntries, MaxMixed) :
          all_pools = Pad(before) \o mixed \o Pad(after)
    /\ pools_checked = Len(all_pools)
    /\ pools_passed_filter = Len(all_pools)
    /\ pools_with_30d_data = 0
    /\ pools_sorted = <<>>
    /\ top_n = <<>>
    /\ arrived = <<>>
    /\ events = <<>>
    /\ calc = NoCalc

NextRank == Main

SpecRank == InitRank /\ [][NextRank]_vars

(***************************************************************************)
(* The yield calculators as pure functions of their arguments              *)
(***************************************************************************)
CalcVolumes == {"1000000", "2000000", "0", "-100000", "n/a", MISSING}

CalcReserves == {"500000", "0", "0.0", "-500000", "n/a", MISSING}

CalcFeeTiers == {None, Num(3, 10), Num(5, 100)}

\* the record whose volume and reserve fields are the calculator's inputs
CalcPool == Pool("WETH / USDC 0.3%", calc.reserve, calc.volume, "2021-05-05T00:00:00Z")

\* a float argument of calculate_apy_30d: the number, or None
FloatOrNone(pool, key) ==
    Let(FloatField(pool, key), LAMBDA v : IF IsNum(v) THEN v ELSE None)

Two == [t |-> "float", n |-> 2, d |-> 1]

InitCalc ==
    /\ script = "revised"
    /\ TOP_100_SYMBOLS = load_top_100_symbols([t |-> "absent"])
    /\ pc = "calc"
    /\ page = 1
    /\ data = <<>>
    /\ all_pools = <<>>
    /\ pools_checked = 0
    /\ pools_passed_filter = 0
    /\ pools_with_30d_data = 0
    /\ pools_sorted = <<>>
    /\ top_n = <<>>
    /\ arrived = <<>>
    /\ events = <<>>
    /\ calc \in [op : {"none"}, volume : CalcVolumes, reserve : CalcReserves,
                 fee_tier : CalcFeeTiers, result : {None}, result2 : {None}]

Others == <<script, TOP_100_SYMBOLS, pc, page, data, all_pools, pools_checked,
            pools_passed_filter, pools_with_30d_data, pools_sorted, top_n,
            arrived, events>>

Apply24h ==
    /\ calc.op = "none"
    /\ calc' = [calc EXCEPT !.op = "calculate_apy_24h",
                            !.result = calculate_apy_24h(CalcPool, calc.fee_tier)]
    /\ UNCHANGED Others

Apply30dRevised ==
    /\ calc.op = "none"
    /\ calc' = [calc EXCEPT !.op = "calculate_apy_30d_revised",
                            !.result = calculate_apy_30d_revised(CalcPool, calc.fee_tier)]
    /\ UNCHANGED Others

Apply30d ==
    /\ calc.op = "none"
    /\ calc' = [calc EXCEPT !.op = "calculate_apy_30d",
                            !.result = calculate_apy_30d(
                                           FloatOrNone(CalcPool, "volume_usd_h24"),
                                           FloatOrNone(CalcPool, "reserve_in_usd"),
                                           calc.fee_tier)]
    /\ UNCHANGED Others

\* the 24h calculator on the record and on the record with twice the volume
Double24h ==
    /\ calc.op = "none"
    /\ IsNum(FloatField(CalcPool, "volume_usd_h24"))
    /\ \E twice \in CalcVolumes \ {MISSING} :
          /\ float(twice) = Mul[Two, float(calc.volume)]
          /\ calc' = [calc EXCEPT
                        !.op = "double_24h",
                        !.result = calculate_apy_24h(CalcPool, calc.fee_tier),
                        !.result2 = calculate_apy_24h(
                                        [CalcPool EXCEPT !.volume_usd_h24 = twice],
                                        calc.fee_tier)]
    /\ UNCHANGED Others

\* the 30-day calculator on a volume and on twice that volume
Double30d ==
    /\ calc.op = "none"
    /\ IsNum(FloatField(CalcPool, "volume_usd_h24"))
    /\ calc' = [calc EXCEPT
                  !.op = "double_30d",
                  !.result = calculate_apy_30d(float(calc.volume),
                                               FloatOrNone(CalcPool, "reserve_in_usd"),
                                               calc.fee_tier),
                  !.result2 = calculate_apy_30d(Mul[Two, float(calc.volume)],
                                                FloatOrNone(CalcPool, "reserve_in_usd"),
                                                calc.fee_tier)]
    /\ UNCHANGED Others

NextCalc == Apply24h \/ Apply30dRevised \/ Apply30d \/ Double24h \/ Double30d

SpecCalc == InitCalc /\ [][NextCalc]_vars

(***************************************************************************)
(* The 30-day yield from a historical per-day series                       *)
(***************************************************************************)
\* the most day records of a series
MaxDays == 3

SeriesDays ==
    {Day(v, t, f) : v \in {"1000000", "3000000"}, t \in {"0", "500000", "1500000"},
                    f \in {"3000", "1000"}}
    \cup {Day("1000000", "n/a", "3000")}

SeriesPoolNames == {"WETH / USDC 0.3%", "WETH / USDC 0.05%"}

SeriesPool == Pool(calc.name, "500000", "1000000", "2021-05-05T00:00:00Z")

InitSeries ==
    /\ script = "with30d"
    /\ TOP_100_SYMBOLS = load_top_100_symbols([t |-> "absent"])
    /\ pc = "calc"
    /\ page = 1
    /\ data = <<>>
    /\ all_pools = <<>>
    /\ pools_checked = 0
    /\ pools_passed_filter = 0
    /\ pools_with_30d_data = 0
    /\ pools_sorted = <<>>
    /\ top_n = <<>>
    /\ arrived = <<>>
    /\ events = <<>>
    /\ calc \in [op : {"none"}, series : SeqsUpTo(SeriesDays, MaxDays),
                 name : SeriesPoolNames, result : {None}]

\* analyze_pools_with_30d_data.py on one eligible record whose historical
\* request is answered with the series: the entry it appends
ApplyWith30d ==
    /\ calc.op = "none"
    /\ calc' = [calc EXCEPT
                  !.op = "with30d",
                  !.result = ExamineWith30d(SeriesPool,
                                            [t |-> "ok", poolDayDatas |-> calc.series]).info]
    /\ UNCHANGED Others

\* fetch_apy_thegraph.py on the pool data holding the series
ApplyTheGraph ==
    /\ calc.op = "none"
    /\ calc' = [calc EXCEPT
                  !.op = "thegraph",
                  !.result = calculate_apy_from_thegraph_data(
                                 [poolDayData |-> calc.series])]
    /\ UNCHANGED Others

NextSeries == ApplyWith30d \/ ApplyTheGraph

SpecSeries == InitSeries /\ [][NextSeries]_vars

\* The historical requests that give no body with data.poolDayDatas: the
\* request failed (exception, non-2xx status), or the body lacks the key.
NoAnswers == {[t |-> "error"], [t |-> "nodata"]}

\* analyze_pools_with_30d_data.py on one eligible record whose historical
\* request is not answered
ApplyWith30dNoAnswer ==
    /\ calc.op = "none"
    /\ \E resp \in NoAnswers :
          calc' = [calc EXCEPT
                     !.op = "with30d_noanswer",
                     !.result = ExamineWith30d(SeriesPool, resp).info]
    /\ UNCHANGED Others

NextFallback == ApplyWith30d \/ ApplyWith30dNoAnswer

SpecFallback == InitSeries /\ [][NextFallback]_vars

(***************************************************************************)
(* The name parser and the eligibility filter as pure functions of a name, *)
(* and the fee extraction of experiments/analyze_pools.py and              *)
(* experiments/analyze_all_pools.py                                        *)
(***************************************************************************)
\* str.rstrip(c) for a one-character c
RStripChar[s \in STRING, c \in STRING] ==
    IF Len(s) > 0 /\ Char(s, Len(s)) = c THEN RStripChar[SubSeq(s, 1, Len(s) - 1), c] ELSE s

\* analyze_pools.py, analyze_all_pools.py: fee_rate of a record named name,
\* or the exception that makes the loop skip the record
fee_rate(name) ==
    IF Contains(name, "%")
    THEN Let(SplitWs(name), LAMBDA words :
         Let(float(RStripChar[words[Len(words)], "%"]), LAMBDA fee :
             IF IsRaise(fee) \/ ~IsFinite(fee) THEN fee ELSE Div[fee, Hundred]))
    ELSE Num(3, 1000)

\* The pieces a name is put together from.  sym is the symbol a token text
\* stands for; kind and value say what a fee suffix holds.
TokenTexts ==
    { [text |-> "WETH", sym |-> "WETH"], [text |-> "weth", sym |-> "WETH"],
      [text |-> "usdc", sym |-> "USDC"], [text |-> "XAUt", sym |-> "XAUT"],
      [text |-> "Pepe", sym |-> "PEPE"], [text |-> "", sym |-> ""] }

Leads == {"", " "}

Separators ==
    { [text |-> " / ", slashes |-> 1], [text |-> "/", slashes |-> 1],
      [text |-> " ", slashes |-> 0], [text |-> " / WBTC / ", slashes |-> 2] }

FeeSuffixes ==
    { [text |-> " 0.05%", kind |-> "number", value |-> Num(5, 100)],
      [text |-> " 0.3%", kind |-> "number", value |-> Num(3, 10)],
      [text |-> " 1%", kind |-> "number", value |-> Num(1, 1)],
      [text |-> "  100% ", kind |-> "number", value |-> Num(100, 1)],
      [text |-> "", kind |-> "missing", value |-> None],
      [text |-> " fee", kind |-> "malformed", value |-> None],
      [text |-> " 0,3%", kind |-> "malformed", value |-> None],
      [text |-> " %", kind |-> "malformed", value |-> None],
      [text |-> " nan%", kind |-> "not finite", value |-> None],
      [text |-> " Inf%", kind |-> "not finite", value |-> None] }

\* the name under test
ParsedName == calc.lead \o calc.a.text \o calc.sep.text \o calc.b.text \o calc.fee.text

InitParse ==
    /\ script = "revised"
    /\ TOP_100_SYMBOLS \in {load_top_100_symbols(f) : f \in SnapshotFiles}
    /\ pc = "calc"
    /\ page = 1
    /\ data = <<>>
    /\ all_pools = <<>>
    /\ pools_checked = 0
    /\ pools_passed_filter = 0
    /\ pools_with_30d_data = 0
    /\ pools_sorted = <<>>
    /\ top_n = <<>>
    /\ arrived = <<>>
    /\ events = <<>>
    /\ calc \in [op : {"none"}, lead : Leads, a : TokenTexts, sep : Separators,
                 b : TokenTexts, fee : FeeSuffixes, result : {None}]

ApplyParse ==
    /\ calc.op = "none"
    /\ calc' = [calc EXCEPT !.op = "parse_pool_name",
                            !.result = parse_pool_name(ParsedName)]
    /\ UNCHANGED Others

ApplyIsAllowed ==
    /\ calc.op = "none"
    /\ calc' = [calc EXCEPT !.op = "is_allowed_pool",
                            !.result = is_allowed_pool(ParsedName)]
    /\ UNCHANGED Others

ApplyFeeRate ==
    /\ calc.op = "none"
    /\ calc' = [calc EXCEPT !.op = "fee_rate", !.result = fee_rate(ParsedName)]
    /\ UNCHANGED Others

NextParse == ApplyParse \/ ApplyIsAllowed \/ ApplyFeeRate

SpecParse == InitParse /\ [][NextParse]_vars

(***************************************************************************)
(* The record loops of the two scripts run on the same page                *)
(***************************************************************************)
BothRecords ==
    Records \cup
    {[Pool("WETH / USDC 0.05%", "500000", "1000000", "2021-05-05T00:00:00Z")
        EXCEPT !.address = NULL]}

\* analyze_pools_revised.py, "for pool in data['data']" on the records of a
\* page: the list built, and whether an exception ended the run
RunRevised(records) ==
    LET run[k \in 0..Len(records)] ==
            IF k = 0 THEN [all_pools |-> <<>>, crashed |-> FALSE]
            ELSE Let(run[k - 1], LAMBDA st :
                 IF st.crashed THEN st
                 ELSE Let(ExamineRevised(records[k]), LAMBDA r :
                      [all_pools |-> IF r.how = "kept" THEN Append(st.all_pools, r.info)
                                     ELSE st.all_pools,
                       crashed |-> r.how = "crash"]))
    IN  run[Len(records)]

\* analyze_pools_with_30d_data.py on the same records, hists[k] being the
\* answer to the historical request of the k-th record: the list built, the
\* counter of entries with historical data, whether the target ended the
\* loop and whether an exception ended the run
RunWith30d(records, hists) ==
    LET run[k \in 0..Len(records)] ==
            IF k = 0
            THEN [all_pools |-> <<>>, pools_with_30d_data |-> 0, stopped |-> FALSE,
                  crashed |-> FALSE]
            ELSE Let(run[k - 1], LAMBDA st :
                 IF st.crashed \/ st.stopped THEN st
                 ELSE Let(ExamineWith30d(records[k], hists[k]), LAMBDA r :
                      [all_pools |-> IF r.how = "kept" THEN Append(st.all_pools, r.info)
                                     ELSE st.all_pools,
                       pools_with_30d_data |-> st.pools_with_30d_data + r.got30d,
                       stopped |-> r.how = "kept"
                                   /\ st.pools_with_30d_data + r.got30d >= TargetPools,
                       crashed |-> r.how = "crash"]))
    IN  run[Len(records)]

\* the answers to a historical request: none, or a series of day records
BothHistories == {h \in HistoryResponses : h.t = "error" \/ h.poolDayDatas # <<>>}

InitBoth ==
    /\ script = "both"
    /\ TOP_100_SYMBOLS \in {load_top_100_symbols(f) : f \in SnapshotFiles}
    /\ pc = "calc"
    /\ page = 1
    /\ data = <<>>
    /\ all_pools = <<>>
    /\ pools_checked = 0
    /\ pools_passed_filter = 0
    /\ pools_with_30d_data = 0
    /\ pools_sorted = <<>>
    /\ top_n = <<>>
    /\ arrived = <<>>
    /\ events = <<>>
    /\ calc \in [op : {"none"}, records : SeqsUpTo(BothRecords, MaxRecords)]

\* both record loops on the records of calc.records
ApplyBoth ==
    /\ calc.op = "none"
    /\ \E hists \in [DOMAIN calc.records -> BothHistories] :
          calc' = [op |-> "both", records |-> calc.records,
                   revised |-> RunRevised(calc.records),
                   with30d |-> RunWith30d(calc.records, hists)]
    /\ UNCHANGED Others

NextBoth == ApplyBoth

SpecBoth == InitBoth /\ [][NextBoth]_vars

(***************************************************************************)
(* experiments/analyze_all_pools.py: every record of the saved pages is    *)
(* analysed, the list is sorted by APY, filtered by TVL and cut            *)
(***************************************************************************)
MIN_TVL_ALL == 100000

TOP_N_ALL == 10

\* lines 26-62: the entry of one record, or the exception that skips it
AnalyzeOne(pool) ==
    Let(fee_rate(pool.name), LAMBDA rate :
    Let(FloatField(pool, "volume_usd_h24"), LAMBDA volume_24h :
    Let(FloatField(pool, "reserve_in_usd"), LAMBDA tvl :
        IF FirstRaise(<<rate, volume_24h, tvl>>) # None
        THEN FirstRaise(<<rate, volume_24h, tvl>>)
        ELSE
        Let(Mul[volume_24h, rate], LAMBDA fees_24h :
            [t |-> "dict",
             name |-> pool.name,
             address |-> pool.address,
             volume_24h |-> volume_24h,
             tvl |-> tvl,
             fee_tier |-> Mul[rate, Hundred],
             fees_24h |-> fees_24h,
             apy |-> IF Less(Zero, tvl)
                     THEN Mul[Mul[Div[fees_24h, tvl], Num(365, 1)], Hundred]
                     ELSE Zero,
             created_at |-> IF pool.pool_created_at = MISSING THEN ""
                            ELSE pool.pool_created_at,
             transactions_24h |-> pool.buys \o pool.sells]))))

\* lines 19-65: pool_analysis, the entries of the records that did not raise
Analyze(records) ==
    LET run[k \in 0..Len(records)] ==
            IF k = 0 THEN <<>>
            ELSE Let(run[k - 1], LAMBDA before :
                 Let(AnalyzeOne(records[k]), LAMBDA e :
                     IF IsRaise(e) THEN before ELSE Append(before, e)))
    IN  run[Len(records)]

\* p['tvl'] >= 100000
Significant(p) == ~Less(p.tvl, Num(MIN_TVL_ALL, 1))

\* A report that is cut to ten entries before the TVL filter is applied.
CutThenFilter(pool_analysis) ==
    Let(SortedDesc(pool_analysis, "apy"), LAMBDA sorted :
        [pool_analysis |-> sorted,
         significant_pools |-> SelectSeq(sorted, Significant),
         top_10 |-> SelectSeq(Take(sorted, TOP_N_ALL), Significant)])

\* lines 67-78: pool_analysis.sort(...), significant_pools, top_10
Report(pool_analysis) ==
    Let(SortedDesc(pool_analysis, "apy"), LAMBDA sorted :
    Let(SelectSeq(sorted, Significant), LAMBDA significant_pools :
        [pool_analysis |-> sorted,
         significant_pools |-> significant_pools,
         top_10 |-> Take(significant_pools, TOP_N_ALL)]))

\* The records of the saved pages: two with equal yield, one at the TVL
\* threshold, one below it with the highest yield, one without a fee in
\* its name, one with a reserve that is no number.
AllPoolsRecords ==
    { Pool("WETH / USDC 0.05%", "500000", "1000000", "2021-05-05T00:00:00Z"),
      Pool("dai / usdc 0.05%", "500000.0", "1000000", "2021-05-06T00:00:00Z"),
      Pool("WBTC / WETH 0.3%", "100000", "100000", "2021-05-07T00:00:00Z"),
      Pool("WBTC / WETH 0.3%", "50000", "100000", "2021-05-07T00:00:00Z"),
      Pool("PEPE / WETH", "200000", "100000", MISSING),
      Pool("WETH / USDT 1%", "n/a", "100000", "2022-01-01T00:00:00Z") }

PadRecord == Pool("WETH / USDC 0.05%", "500000", "1000000", "2021-05-05T00:00:00Z")

PadRecords(k) == [i \in 1..k |-> PadRecord]

InitAllPools ==
    /\ script = "all_pools"
    /\ TOP_100_SYMBOLS = {}
    /\ pc = "calc"
    /\ page = 1
    /\ data = <<>>
    /\ all_pools = <<>>
    /\ pools_checked = 0
    /\ pools_passed_filter = 0
    /\ pools_with_30d_data = 0
    /\ pools_sorted = <<>>
    /\ top_n = <<>>
    /\ arrived = <<>>
    /\ events = <<>>
    /\ \E before \in 0..MaxPad, after \in 0..MaxPad :
       \E mixed \in SeqsUpTo(AllPoolsRecords, MaxMixed) :
          calc = [op |-> "none",
                  all_pools |-> PadRecords(before) \o mixed \o PadRecords(after)]

\* the script from line 19 on, on the records read from the saved pages
AnalyzeAllPools ==
    /\ calc.op = "none"
    /\ calc' = [op |-> "analyze_all_pools", all_pools |-> calc.all_pools,
                analysed |-> Analyze(calc.all_pools),
                report |-> Report(Analyze(calc.all_pools))]
    /\ UNCHANGED Others

NextAllPools == AnalyzeAllPools

SpecAllPools == InitAllPools /\ [][NextAllPools]_vars

(***************************************************************************)
(* experiments/fetch_apy_thegraph.py: fetch_all_pools_data, one request    *)
(* per configured pool                                                     *)
(***************************************************************************)
POOLS ==
    <<[name |-> "XAUt / WETH 0.3%", address |-> "0xc5c7c21f4e60770ca5991a8832127a40f5236f73"],
      [name |-> "XAUt / USDT 0.05%", address |-> "0x6546055f46e866a4b9a4a13e81273e3152bae5da"],
      [name |-> "WETH / USDT 0.3%", address |-> "0x4e68ccd3e89f51c3074ca5072bbac773960dfa36"],
      [name |-> "XAUt / USDT 0.3%", address |-> "0xa91f80380d9cc9c86eb98d2965a0ded9e2000791"],
      [name |-> "UNI / WBTC 0.3%", address |-> "0x8f0cb37cdff37e004e0088f563e5fe39e05ccc5b"]>>

\* The run is modelled on the first MaxPools entries of POOLS.
MaxPools == 3

ConfiguredPools == SubSeq(POOLS, 1, MaxPools)

GraphPool(token0, days) ==
    [t |-> "dict", token0 |-> token0, token1 |-> [symbol |-> "WETH"], feeTier |-> "3000",
     poolDayData |-> days]

\* The outcomes of the POST of one pool: the request raised, a status other
\* than 200, a body with 'errors', a body without data.pool, a null pool, or
\* a pool object (its token0 an object or null).
GraphResponses ==
    {[t |-> "network"], [t |-> "status"], [t |-> "errors"], [t |-> "malformed"],
     [t |-> "ok", pool |-> None],
     [t |-> "ok", pool |-> GraphPool([symbol |-> "XAUt"], <<>>)],
     [t |-> "ok", pool |-> GraphPool(None,
                               <<Day("1000000", "500000", "3000")>>)],
     [t |-> "ok", pool |-> GraphPool([symbol |-> "XAUt"],
                               <<Day("1000000", "n/a", "3000")>>)],
     [t |-> "ok", pool |-> GraphPool([symbol |-> "XAUt"],
                               <<Day("1000000", "0", "3000")>>)],
     [t |-> "ok", pool |-> GraphPool([symbol |-> "XAUt"],
                               <<Day("1000000", "500000", "3000")>>)],
     [t |-> "ok", pool |-> GraphPool([symbol |-> "XAUt"],
                               <<Day("1000000", "500000", "3000"),
                                 Day("3000000", "1500000", "1000")>>)]}

\* response = requests.post(...); the pool object of the body, or the
\* exception raised
fetch_pool_data_from_thegraph(resp) ==
    CASE resp.t = "network" -> Raise("ConnectionError")
      [] resp.t = "status" -> Raise("Exception: GraphQL query failed")
      [] resp.t = "errors" -> Raise("Exception: GraphQL errors")
      [] resp.t = "malformed" -> Raise("KeyError")
      [] OTHER -> resp.pool

\* pool_data.get(key, {}).get('symbol', 'N/A')
SymbolOf(pool_data, key) ==
    IF pool_data = None \/ pool_data[key] = None THEN Raise("AttributeError")
    ELSE Str(pool_data[key].symbol)

\* the entry of the except branch
FailedEntry(pool, e) ==
    [name |-> pool.name, address |-> pool.address, apy_30d |-> Zero,
     total_fees_usd |-> Zero, avg_tvl_usd |-> Zero, total_volume_usd |-> Zero,
     days_count |-> 0, source |-> "The Graph", error |-> e.exc]

\* the entry that one turn of the loop appends for a pool
GraphEntry(pool, resp) ==
    Let(fetch_pool_data_from_thegraph(resp), LAMBDA pool_data :
        IF IsRaise(pool_data) THEN FailedEntry(pool, pool_data)
        ELSE
        Let(calculate_apy_from_thegraph_data(pool_data), LAMBDA metrics :
        Let(FirstRaise(<<metrics, SymbolOf(pool_data, "token0"),
                         SymbolOf(pool_data, "token1")>>), LAMBDA e :
            IF e # None THEN FailedEntry(pool, e)
            ELSE [name |-> pool.name, address |-> pool.address,
                  token0 |-> pool_data.token0.symbol,
                  token1 |-> pool_data.token1.symbol,
                  fee_tier |-> pool_data.feeTier,
                  source |-> "The Graph"] @@ metrics)))

\* A loop whose except branch only prints.
SkipFailed(results, pool, resp) ==
    Let(GraphEntry(pool, resp), LAMBDA entry :
        IF "error" \in DOMAIN entry THEN results ELSE Append(results, entry))

\* one turn of "for i, pool in enumerate(POOLS, 1)": results after it
LoopBody(results, pool, resp) == Append(results, GraphEntry(pool, resp))

InitGraph ==
    /\ script = "thegraph"
    /\ TOP_100_SYMBOLS = {}
    /\ pc = "graph_loop"
    /\ page = 1
    /\ data = <<>>
    /\ all_pools = <<>>
    /\ pools_checked = 0
    /\ pools_passed_filter = 0
    /\ pools_with_30d_data = 0
    /\ pools_sorted = <<>>
    /\ top_n = <<>>
    /\ arrived = <<>>
    /\ events = <<>>
    /\ calc = [op |-> "fetch_all_pools_data", i |-> 1, results |-> <<>>,
               responses |-> <<>>]

\* one pool of the loop, with the outcome resp of its request
FetchPool ==
    /\ pc = "graph_loop"
    /\ calc.i <= Len(ConfiguredPools)
    /\ \E resp \in GraphResponses :
          calc' = [calc EXCEPT
                     !.i = calc.i + 1,
                     !.results = LoopBody(calc.results, ConfiguredPools[calc.i], resp),
                     !.responses = Append(calc.responses, resp)]
    /\ UNCHANGED Others

\* results.sort(key=lambda x: x['apy_30d'], reverse=True); return results
SortAndReturn ==
    /\ pc = "graph_loop"
    /\ calc.i > Len(ConfiguredPools)
    /\ calc' = [calc EXCEPT !.results = SortedDesc(calc.results, "apy_30d")]
    /\ pc' = "graph_returned"
    /\ UNCHANGED <<script, TOP_100_SYMBOLS, page, data, all_pools, pools_checked,
                   pools_passed_filter, pools_with_30d_data, pools_sorted, top_n,
                   arrived, events>>

NextGraph == FetchPool \/ SortAndReturn

SpecGraph == InitGraph /\ [][NextGraph]_vars

(***************************************************************************)
(* Module import followed by the pipeline: TOP_100_SYMBOLS is assigned by   *)
(* the module-level statement, then __main__ runs                          *)
(***************************************************************************)
\* The value of the module-level name before its assignment has run.
Unassigned == {"<unassigned>"}

InitLoad ==
    /\ script \in Scripts
    /\ TOP_100_SYMBOLS = Unassigned
    /\ pc = "import"
    /\ page = 1
    /\ data = <<>>
    /\ all_pools = <<>>
    /\ pools_checked = 0
    /\ pools_passed_filter = 0
    /\ pools_with_30d_data = 0
    /\ pools_sorted = <<>>
    /\ top_n = <<>>
    /\ arrived = <<>>
    /\ events = <<>>
    /\ calc \in [op : {"import"}, file : SnapshotFiles]

\* TOP_100_SYMBOLS = load_top_100_symbols()
Import ==
    /\ pc = "import"
    /\ TOP_100_SYMBOLS' = load_top_100_symbols(calc.file)
    /\ pc' = "fetch"
    /\ UNCHANGED <<script, page, data, all_pools, pools_checked, pools_passed_filter,
                   pools_with_30d_data, pools_sorted, top_n, arrived, events, calc>>

NextLoad == Import \/ FetchPage \/ ProcessRecord \/ EndPage \/ Main

SpecLoad == InitLoad /\ [][NextLoad]_vars

(***************************************************************************)
(* Properties                                                              *)
(***************************************************************************)
\* ---- the result list (Spec) ----
\* the three filters of the record loop
MeetsFilter(pool) ==
    /\ pool.name \notin {MISSING, NULL}
    /\ Let(parse_pool_name(pool.name), LAMBDA p :
           /\ p.fee_tier # None
           /\ Truthy(p.token1) /\ Truthy(p.token2)
           /\ is_allowed_token(p.token1.v) /\ is_allowed_token(p.token2.v))
    /\ Let(FloatField(pool, "reserve_in_usd"), LAMBDA reserve :
           IsNum(reserve) /\ ~Less(reserve, Num(MIN_TVL, 1)))

\* the other fields the loop body reads are present and well-formed
WellFormedRest(pool) ==
    /\ IsNum(FloatField(pool, "volume_usd_h24"))
    /\ ~IsRaise(IntField(pool, "buys"))
    /\ ~IsRaise(IntField(pool, "sells"))
    /\ pool.address # MISSING
    /\ pool.pool_created_at # MISSING

RecordId(pool) == <<pool.name, FloatField(pool, "reserve_in_usd"), pool.pool_created_at>>

EntryId(e) == <<e.name, e.reserve_usd, e.pool_created_at>>

IdsOfRecords(Keep(_)) ==
    Let(SelectSeq(arrived, Keep), LAMBDA sel : [i \in 1..Len(sel) |-> RecordId(sel[i])])

IdsOfEntries == [i \in 1..Len(all_pools) |-> EntryId(all_pools[i])]

TargetHit == script = "with30d" /\ pools_with_30d_data >= TargetPools

RankKey(e) == e[RankingKey]

Descending(pools) ==
    \A i, j \in DOMAIN pools : i < j => ~Less(RankKey(pools[i]), RankKey(pools[j]))

WithKey(pools, k) == SelectSeq(pools, LAMBDA e : RankKey(e) = k)

IsPrefix(a, b) == Len(a) <= Len(b) /\ a = SubSeq(b, 1, Len(a))

\* C2: the ranked output is in descending order of the ranking key, and
\* entries with equal ranking key appear in it in their order of arrival in
\* the result list.
C2_StableDescending ==
    pc = "done" =>
        /\ Descending(pools_sorted)
        /\ Descending(top_n)
        /\ \A k \in {RankKey(all_pools[i]) : i \in DOMAIN all_pools} :
              /\ WithKey(pools_sorted, k) = WithKey(all_pools, k)
              /\ IsPrefix(WithKey(top_n, k), WithKey(all_pools, k))

\* a ranked output with two different entries of equal key, from a list that
\* was not in descending order
C2_Witness ==
    /\ pc = "done"
    /\ ~Descending(all_pools)
    /\ \E i, j \in DOMAIN top_n :
          /\ i < j
          /\ RankKey(top_n[i]) = RankKey(top_n[j])
          /\ top_n[i].name # top_n[j].name

\* C3: the ranked output has length min(N, length of the result list), N = 10
\* in the revised script and 20 in the 30-day script, and is the prefix of the
\* sorted list: no dropped entry has a key greater than a retained one.
C3_TopNIsPrefix ==
    pc = "done" =>
        /\ Len(top_n) = (IF Len(all_pools) < TopN THEN Len(all_pools) ELSE TopN)
        /\ TopN = (IF script = "revised" THEN 10 ELSE 20)
        /\ Len(pools_sorted) = Len(all_pools)
        /\ IsPrefix(top_n, pools_sorted)
        /\ \A i \in DOMAIN top_n : \A j \in (Len(top_n) + 1)..Len(pools_sorted) :
              ~Less(RankKey(top_n[i]), RankKey(pools_sorted[j]))

\* the 30-day script ranked more than 20 entries and dropped one
C3_Witness ==
    /\ pc = "done"
    /\ script = "with30d"
    /\ Len(all_pools) > TOP_N_WITH30D
    /\ Len(top_n) = TOP_N_WITH30D

\* ---- the calculators (SpecCalc) ----
CalcOps == {"calculate_apy_24h", "calculate_apy_30d_revised", "calculate_apy_30d"}

CalcVolume == FloatField(CalcPool, "volume_usd_h24")

CalcTvl == FloatField(CalcPool, "reserve_in_usd")

ZeroTvl == IsNum(CalcTvl) /\ CalcTvl = Zero

NegativeTvl == IsNum(CalcTvl) /\ Less(CalcTvl, Zero)

PositiveCase == IsNum(CalcVolume) /\ IsNum(CalcTvl) /\ Less(Zero, CalcTvl) /\ calc.fee_tier # None

\* C4: each calculator returns a number, never an exception, and returns 0
\* whenever the reserve / average TVL is 0 or the fee tier is absent.
C4_ZeroOnZeroTvlOrNoFee ==
    calc.op \in CalcOps =>
        /\ IsNum(calc.result)
        /\ (ZeroTvl \/ calc.fee_tier = None) => calc.result = Zero

\* both cases: a zero average TVL with a fee tier, an absent fee tier with a
\* positive reserve
C4_Witness ==
    /\ calc.op \in CalcOps
    /\ IsNum(CalcVolume) /\ CalcVolume # Zero
    /\ \/ ZeroTvl /\ calc.fee_tier # None /\ calc.op = "calculate_apy_30d"
       \/ IsNum(CalcTvl) /\ Less(Zero, CalcTvl) /\ calc.fee_tier = None
    /\ calc.result = Zero

\* C5 as stated: each calculator returns 0 whenever the reserve / average TVL
\* is negative.
C5_ZeroOnNegativeTvl ==
    (calc.op \in CalcOps /\ NegativeTvl) => calc.result = Zero

\* volume * (fee_tier / 100) / tvl * (365 / days) * 100, the factors of 100
\* cancelled
Expected(volume, tvl, fee_tier, days) ==
    Div[Mul[Mul[volume, fee_tier], Num(365, days)], tvl]

\* C6: for a present fee tier and a positive reserve, the 24h yield is
\* volume * (fee / 100) / reserve * 365 * 100 (also the revised script's 30-day
\* figure, which uses the 24h volume), the 30-day yield of the 30-day script is
\* volume_30d * (fee / 100) / avg_tvl * (365 / 30) * 100, and volume 1,000,000,
\* reserve 500,000, fee 0.3 give 219.
C6_Formula ==
    (calc.op \in CalcOps /\ PositiveCase) =>
        /\ calc.result = Expected(CalcVolume, CalcTvl, calc.fee_tier,
                                  IF calc.op = "calculate_apy_30d" THEN 30 ELSE 1)
        /\ ( /\ calc.op # "calculate_apy_30d"
             /\ calc.volume = "1000000" /\ calc.reserve = "500000"
             /\ calc.fee_tier = Num(3, 10) )
           => calc.result = Num(219, 1)

C6_Witness ==
    /\ calc.op = "calculate_apy_24h"
    /\ calc.volume = "1000000" /\ calc.reserve = "500000"
    /\ calc.fee_tier = Num(3, 10)
    /\ calc.result = Num(219, 1)

\* C7: for a positive TVL and a present fee tier, the yield of twice the
\* volume is twice the yield.
C7_Homogeneous ==
    (calc.op \in {"double_24h", "double_30d"} /\ PositiveCase) =>
        calc.result2 = Mul[Two, calc.result]

C7_Witness ==
    /\ calc.op \in {"double_24h", "double_30d"}
    /\ PositiveCase
    /\ calc.result # Zero
    /\ calc.result2 = Mul[Two, calc.result]

\* ---- the historical series (SpecSeries) ----
\* the 30-day script kept the entry with the figures of the series
RealEntry ==
    /\ calc.op = "with30d"
    /\ calc.result # None
    /\ calc.result.has_real_30d_data
    /\ Less(Zero, calc.result.avg_tvl_30d)

\* fetch_apy_thegraph.py computed a yield from the series
GraphYield ==
    /\ calc.op = "thegraph"
    /\ calc.result.t = "dict"
    /\ calc.series # <<>>
    /\ Less(Zero, calc.result.avg_tvl_usd)

DaysPresent == Num(Len(calc.series), 1)

\* C8 as stated: the yield from a series is annualized by 365 divided by the
\* number of day records of the series (the fees and the average TVL being
\* the ones each script uses).
C8_AnnualizedByDaysPresent ==
    /\ RealEntry =>
          calc.result.apy_30d =
              Div[Expected(calc.result.volume_30d, calc.result.avg_tvl_30d,
                           calc.result.fee_tier, 1), DaysPresent]
    /\ GraphYield =>
          calc.result.apy_30d =
              Div[Mul[Div[calc.result.total_fees_usd, calc.result.avg_tvl_usd],
                      Num(36500, 1)], DaysPresent]

\* C9 as stated: the fees the 30-day script's yield is computed from are the
\* sum of the days' reported fees (annualized as the script does, by 365/30).
C9_FeesAreTheSumOfDailyFees ==
    RealEntry =>
        calc.result.apy_30d =
            Mul[Div[SumField(calc.series, "feesUSD"), calc.result.avg_tvl_30d],
                Num(36500, 30)]

\* C10 as stated: the TVL denominator is the sum of the TVL of every day
\* record divided by the number of day records, zero-TVL days included.
C10_MeanOverEveryDay ==
    /\ (calc.op = "with30d" /\ calc.result # None /\ calc.result.has_real_30d_data) =>
          calc.result.avg_tvl_30d = Div[SumField(calc.series, "tvlUSD"), DaysPresent]
    /\ (calc.op = "thegraph" /\ calc.result.t = "dict" /\ calc.series # <<>>) =>
          calc.result.avg_tvl_usd = Div[SumField(calc.series, "tvlUSD"), DaysPresent]

\* ---- the parser and the filter (SpecParse) ----
\* the text after the first '/' of s, up to the next '/' or the end
AfterSlash[s \in STRING, seen \in BOOLEAN] ==
    IF Len(s) = 0 THEN ""
    ELSE IF Char(s, 1) = "/" THEN (IF seen THEN "" ELSE AfterSlash[SubSeq(s, 2, Len(s)), TRUE])
    ELSE (IF seen THEN Char(s, 1) ELSE "") \o AfterSlash[SubSeq(s, 2, Len(s)), seen]

\* the number of maximal runs of non-blank characters of s
CountTokens(s) ==
    Cardinality({i \in 1..Len(s) : Char(s, i) # " " /\ (i = 1 \/ Char(s, i - 1) = " ")})

Unparseable == [t |-> "tuple", token1 |-> None, token2 |-> None, fee_tier |-> None]

\* the name is <A> / <B> <suffix> with one '/' and symbols A and B
WellShaped == calc.sep.slashes = 1 /\ calc.a.text # "" /\ calc.b.text # ""

\* C11: parse_pool_name returns (None, None, None) when the name has no '/'
\* or the segment right of the first '/' has fewer than two
\* whitespace-separated tokens, never a partial result.
C11_UnparseableIsAllNone ==
    ( /\ calc.op = "parse_pool_name"
      /\ \/ ~Contains(ParsedName, "/")
         \/ CountTokens(AfterSlash[ParsedName, FALSE]) < 2 )
    => calc.result = Unparseable

\* "XAUt / WETH" with no fee suffix was parsed
C11_Witness ==
    /\ calc.op = "parse_pool_name"
    /\ ParsedName = "XAUt / WETH"
    /\ calc.result = Unparseable

\* C12: for a name "<A> / <B> <number>%", parse_pool_name returns A trimmed
\* and upper-cased, B upper-cased and the fee tier equal to the number.
C12_ParsesTokensAndFee ==
    (calc.op = "parse_pool_name" /\ WellShaped /\ calc.fee.kind = "number") =>
        /\ calc.result.token1 = Str(calc.a.sym)
        /\ calc.result.token2 = Str(calc.b.sym)
        /\ calc.result.fee_tier = calc.fee.value

\* " weth / usdc 0.05%" was parsed to (WETH, USDC, 0.05)
C12_Witness ==
    /\ calc.op = "parse_pool_name"
    /\ ParsedName = " weth / usdc 0.05%"
    /\ calc.result = [t |-> "tuple", token1 |-> Str("WETH"), token2 |-> Str("USDC"),
                      fee_tier |-> Num(5, 100)]

\* C13 as stated: for a name whose fee string is malformed, missing or not a
\* finite number, the fee tier of every script is absent: parse_pool_name
\* reports None, and analyze_pools.py / analyze_all_pools.py compute no fee
\* rate.
C13_NoFeeWhenMalformed ==
    calc.fee.kind # "number" =>
        /\ (calc.op = "parse_pool_name" /\ WellShaped) =>
              /\ calc.result.fee_tier = None
              /\ calc.result.token1 = Str(calc.a.sym)
              /\ calc.result.token2 = Str(calc.b.sym)
        /\ calc.op = "fee_rate" => IsRaise(calc.result)

Allowlist == STABLECOINS \cup MAJOR_COINS \cup TOP_100_SYMBOLS

\* C14: is_allowed_pool is true exactly when the name parses to two
\* non-empty tokens that are both on the allowlist (the union of the three
\* sets), whatever the letter case of the name.
C14_BothLegsAllowed ==
    calc.op = "is_allowed_pool" =>
        /\ calc.result.t = "bool"
        /\ calc.result.v <=>
              /\ calc.sep.slashes = 1
              /\ calc.a.sym # "" /\ calc.b.sym # ""
              /\ CountTokens(calc.fee.text) > 0
              /\ calc.a.sym \in Allowlist
              /\ calc.b.sym \in Allowlist

\* a lower-case name with one leg off the allowlist was rejected, with the
\* snapshot file present
C14_Witness ==
    /\ calc.op = "is_allowed_pool"
    /\ ParsedName = "weth / Pepe 0.3%"
    /\ TOP_100_SYMBOLS # {}
    /\ calc.result = [t |-> "bool", v |-> FALSE]

\* ---- errors in the pipeline (Spec) ----
\* the run was ended by an exception that no handler caught
Aborted == pc = "crashed"

\* C15 as stated: an error raised while processing one record never aborts
\* the pipeline.
C15_RecordErrorNeverAborts == ~Aborted

\* the pipeline returned to __main__
Returned == pc \in {"main", "done", "exit1"}

PagesFetched == {events[i].page : i \in {j \in DOMAIN events : events[j].e = "fetch_page"}}

\* C16 as stated: a failed page fetch skips only that page, so a pipeline
\* that returns without having hit the early-stop target has requested every
\* page up to num_pages.
C16_EveryPageFetched == (Returned /\ ~TargetHit) => PagesFetched = 1..NumPages

\* ---- one request per pool (SpecGraph) ----
\* the request of the k-th pool gave no pool object
FetchFailed(k) == calc.responses[k].t # "ok" \/ calc.responses[k].pool = None

EntriesOf(pool) ==
    {j \in DOMAIN calc.results :
        calc.results[j].name = pool.name /\ calc.results[j].address = pool.address}

\* C17: whatever the outcome of each request, the loop goes on to the next
\* pool (one entry appended per pool met), and fetch_all_pools_data returns
\* exactly one entry per configured pool; the entry of a pool whose request
\* failed has apy_30d = 0 and an error note.
C17_OneEntryPerPool ==
    calc.op = "fetch_all_pools_data" =>
        /\ pc = "graph_loop" => Len(calc.results) = calc.i - 1
        /\ pc = "graph_returned" =>
              /\ Len(calc.results) = Len(ConfiguredPools)
              /\ \A k \in DOMAIN ConfiguredPools :
                    /\ Cardinality(EntriesOf(ConfiguredPools[k])) = 1
                    /\ FetchFailed(k) =>
                          \A j \in EntriesOf(ConfiguredPools[k]) :
                             /\ calc.results[j].apy_30d = Zero
                             /\ "error" \in DOMAIN calc.results[j]

\* the request of the first pool failed, the later ones gave data, and the
\* function returned the failed pool last
C17_Witness ==
    /\ calc.op = "fetch_all_pools_data"
    /\ pc = "graph_returned"
    /\ calc.responses[1].t = "status"
    /\ \A k \in 2..Len(ConfiguredPools) : ~FetchFailed(k)
    /\ Less(Zero, calc.results[1].apy_30d)
    /\ calc.results[Len(ConfiguredPools)].name = ConfiguredPools[1].name
    /\ "error" \in DOMAIN calc.results[Len(ConfiguredPools)]

\* json.dump(top_n, f): the report file is written on the way to "done" only
ReportWritten == pc = "done"

\* __main__ has ended
Ended == pc \in {"done", "exit1"}

\* C18 as stated (first part): when no pool survives, the run still
\* produces a report, an empty one.
C18_EmptyReportWhenNoPool == (Ended /\ all_pools = <<>>) => (ReportWritten /\ top_n = <<>>)

\* ---- the allowlist over a run (SpecLoad) ----
\* C19: with the snapshot file absent the import does not fail and leaves
\* the top-100 set empty, so that the allowlist is the union of STABLECOINS
\* and MAJOR_COINS; the import is the only step that assigns
\* TOP_100_SYMBOLS, and no step of the pipeline changes it afterwards.
C19_LoadedOnceNeverChanged ==
    [][/\ pc = "import" =>
            /\ pc' = "fetch"
            /\ calc.file.t = "absent" =>
                  /\ TOP_100_SYMBOLS' = {}
                  /\ Allowlist' = STABLECOINS \cup MAJOR_COINS
       /\ pc # "import" => TOP_100_SYMBOLS' = TOP_100_SYMBOLS]_vars

\* a run that imported with the file absent and went on to rank pools
C19_Witness ==
    /\ calc.op = "import" /\ calc.file.t = "absent"
    /\ pc = "done"
    /\ TOP_100_SYMBOLS = {}
    /\ top_n # <<>>

\* C20 as stated: every ranking key of the ranked output is a finite,
\* non-negative number.
C20_KeysFiniteNonNegative ==
    pc = "done" =>
        \A i \in DOMAIN top_n : IsFinite(RankKey(top_n[i])) /\ ~Less(RankKey(top_n[i]), Zero)

\* ---- counters, delays and termination of the pipeline (Spec) ----
\* C21 as stated: after every processed record pools_checked is the number
\* of records examined so far, and kept <= pools_passed_filter <=
\* pools_checked.
C21_CountersConsistent ==
    /\ pools_checked = Len(arrived)
    /\ Len(all_pools) <= pools_passed_filter
    /\ pools_passed_filter <= pools_checked

\* positions of the page requests in the history
FetchPositions == {i \in DOMAIN events : events[i].e = "fetch_page"}

\* C22: between any two page requests of a run there is the sleep that
\* follows the earlier page, whatever happened to the records of that page.
C22_SleepBetweenPageFetches ==
    \A i \in FetchPositions : \A j \in FetchPositions :
        i < j => \E k \in (i + 1)..(j - 1) :
                    events[k].e = "sleep_page" /\ events[k].page = events[i].page

\* two pages were requested although every record of the first was skipped
C22_Witness ==
    /\ Cardinality(FetchPositions) = 2
    /\ arrived # <<>>
    /\ all_pools = <<>>
    /\ \E k \in DOMAIN events : events[k] = Ev("sleep_page", 1)

\* the pages requested so far, in the order of the requests
PagesRequested ==
    [n \in 1..Cardinality(FetchPositions) |->
        events[CHOOSE i \in FetchPositions :
                  Cardinality({j \in FetchPositions : j <= i}) = n].page]

\* the pipeline has returned or was ended by an exception
Terminated == Returned \/ Aborted

\* C23: a run requests at most num_pages pages, the pages 1, 2, ... in this
\* order and none of them twice, and it terminates.
C23_TerminatesWithinNumPages ==
    /\ [](/\ Len(PagesRequested) <= NumPages
          /\ \A n \in DOMAIN PagesRequested : PagesRequested[n] = n)
    /\ <>Terminated

\* a run that requested every page, the first of them failing no record,
\* and returned
C23_Witness ==
    /\ Returned
    /\ Len(PagesRequested) = NumPages
    /\ arrived # <<>>

HistoryReturned ==
    /\ calc.op = "with30d"
    /\ calc.series # <<>>
    /\ \A i \in DOMAIN calc.series :
          \A key \in {"volumeUSD", "tvlUSD", "feesUSD"} :
             IsNum(FloatField(calc.series[i], key))

\* C25: an eligible record is kept whatever the historical request gave;
\* has_real_30d_data tells whether a volume and an average TVL came back,
\* and without them apy_30d = apy_24h, volume_30d = 30 x volume_24h and
\* avg_tvl_30d = reserve_usd.
C25_FallbackTo24h ==
    calc.op \in {"with30d", "with30d_noanswer"} =>
        /\ calc.result # None
        /\ calc.result.has_real_30d_data <=> HistoryReturned
        /\ ~calc.result.has_real_30d_data =>
              /\ calc.result.apy_30d = calc.result.apy_24h
              /\ calc.result.volume_30d = Mul[calc.result.volume_24h, Num(30, 1)]
              /\ calc.result.avg_tvl_30d = calc.result.reserve_usd

\* the request failed and the entry carries the 24h figures
C25_Witness ==
    /\ calc.op = "with30d_noanswer"
    /\ calc.result # None
    /\ ~calc.result.has_real_30d_data
    /\ Less(Zero, calc.result.apy_30d)
    /\ calc.result.volume_30d = Num(30000000, 1)

\* ---- the 30-day pipeline: target, counter and delays (Spec) ----
\* C26 as stated: pools_with_30d_data never exceeds target_pools, and once
\* it has reached target_pools the run is past its record and page loops.
C26_StopsAtTarget ==
    script = "with30d" =>
        /\ pools_with_30d_data <= TargetPools
        /\ pools_with_30d_data >= TargetPools => pc \notin {"records", "fetch"}

\* C27 as stated: pools_with_30d_data is the number of entries of the
\* result list with has_real_30d_data = true.
C27_CounterCountsRealEntries ==
    script = "with30d" =>
        pools_with_30d_data =
            Cardinality({i \in DOMAIN all_pools : all_pools[i].has_real_30d_data})

\* positions of the historical requests in the history
HistoryPositions == {i \in DOMAIN events : events[i].e = "fetch_30d"}

\* C28 as stated: between any two historical requests of a run there is the
\* sleep of the record loop.
C28_SleepBetweenHistoryFetches ==
    \A i \in HistoryPositions : \A j \in HistoryPositions :
        i < j => \E k \in (i + 1)..(j - 1) : events[k].e = "sleep_record"

\* ---- the two record loops compared (SpecBoth) ----
\* what the claim compares of an entry
Compared(e) ==
    [name |-> e.name, address |-> e.address, pool_created_at |-> e.pool_created_at,
     fee_tier |-> e.fee_tier, reserve_usd |-> e.reserve_usd, apy_24h |-> e.apy_24h]

\* C29 as stated: on the same records and allowlist, the target not being
\* reached, the two scripts keep the same records in the same order with
\* equal fee_tier, reserve_usd and apy_24h.
C29_SameRecordsKept ==
    (calc.op = "both" /\ calc.with30d.pools_with_30d_data < TargetPools) =>
        /\ Len(calc.revised.all_pools) = Len(calc.with30d.all_pools)
        /\ \A i \in DOMAIN calc.revised.all_pools :
              Compared(calc.revised.all_pools[i]) = Compared(calc.with30d.all_pools[i])

\* ---- sort, filter, cut of analyze_all_pools.py (SpecAllPools) ----
\* the entries with TVL >= 100,000 in the order in which they were analysed
FilteredFirst == SelectSeq(calc.analysed, LAMBDA p : ~Less(p.tvl, Num(100000, 1)))

DescendingByApy(pools) ==
    \A i, j \in DOMAIN pools : i < j => ~Less(pools[i].apy, pools[j].apy)

WithApy(pools, k) == SelectSeq(pools, LAMBDA p : p.apy = k)

\* C30: the list the script sorts and then filters is the stable descending
\* sort by APY of the list filtered first (descending, the entries of equal
\* APY in their order in the filtered list), and top_10 is its first ten
\* entries.
C30_SortThenFilterIsFilterThenSort ==
    calc.op = "analyze_all_pools" =>
        /\ Len(calc.report.significant_pools) = Len(FilteredFirst)
        /\ DescendingByApy(calc.report.significant_pools)
        /\ \A k \in {FilteredFirst[i].apy : i \in DOMAIN FilteredFirst} :
              WithApy(calc.report.significant_pools, k) = WithApy(FilteredFirst, k)
        /\ Len(calc.report.top_10)
              = (IF Len(FilteredFirst) < 10 THEN Len(FilteredFirst) ELSE 10)
        /\ IsPrefix(calc.report.top_10, calc.report.significant_pools)

\* more than ten entries passed the TVL filter, two different ones of equal
\* APY are in the report, and an entry below the threshold led the sorted
\* list
C30_Witness ==
    /\ calc.op = "analyze_all_pools"
    /\ Len(FilteredFirst) > 10
    /\ Len(calc.report.top_10) = 10
    /\ Less(calc.report.pool_analysis[1].tvl, Num(100000, 1))
    /\ \E i, j \in DOMAIN calc.report.top_10 :
          /\ calc.report.top_10[i].apy = calc.report.top_10[j].apy
          /\ calc.report.top_10[i].name # calc.report.top_10[j].name

====
